---- MODULE Spec2Model ----
(***************************************************************************)
(* hvac-proxy: a transparent HTTP proxy that captures request and response *)
(* bodies to a data directory and extracts a metrics snapshot from status  *)
(* documents.                                                              *)
(*                                                                         *)
(* Two variants of the program live in the repository and both are         *)
(* modelled:                                                               *)
(*   "hvac"   - main.go (src/unnamed/part_003) with package hvac           *)
(*              (src/unnamed/part_006, src/hvac/xml_utils.go,              *)
(*              src/hvac/hvac_metrics.go);                                 *)
(*   "legacy" - the single-file program src/unnamed/part_002.              *)
(*                                                                         *)
(* Strings are sequences of one-character strings.  A body is a sequence   *)
(* of lexical items (tags, character data, ...), the units in which the    *)
(* XML decoder, the redaction pattern and the indenting encoder see it.    *)
(***************************************************************************)
EXTENDS Integers, Sequences, FiniteSets, TLC

(***************************************************************************)
(* Strings                                                                 *)
(***************************************************************************)
HasPrefix(s, p) == Len(s) >= Len(p) /\ SubSeq(s, 1, Len(p)) = p

HasSuffix(s, p) == Len(s) >= Len(p) /\ SubSeq(s, Len(s) - Len(p) + 1, Len(s)) = p

TrimPrefix(s, p) == IF HasPrefix(s, p) THEN SubSeq(s, Len(p) + 1, Len(s)) ELSE s

Contains(s, c) == \E i \in 1..Len(s) : s[i] = c

\* unicode.IsSpace for the characters the model uses
IsSpace(c) == c \in {" ", "\t", "\n"}

RECURSIVE TrimLeft(_)
TrimLeft(s) == IF s # <<>> /\ IsSpace(Head(s)) THEN TrimLeft(Tail(s)) ELSE s

RECURSIVE TrimRight(_)
TrimRight(s) ==
    IF s # <<>> /\ IsSpace(s[Len(s)]) THEN TrimRight(SubSeq(s, 1, Len(s) - 1)) ELSE s

TrimSpace(s) == TrimRight(TrimLeft(s))

\* strings.Index of a one-character separator: 0 when absent
IndexOf(s, c) ==
    IF Contains(s, c)
    THEN CHOOSE i \in 1..Len(s) : s[i] = c /\ \A j \in 1..(i - 1) : s[j] # c
    ELSE 0

(***************************************************************************)
(* path/filepath (Unix)                                                    *)
(***************************************************************************)
\* the elements of p between separators, empty elements dropped
RECURSIVE SplitSlash(_)
SplitSlash(p) ==
    LET i == IndexOf(p, "/") IN
    IF p = <<>> THEN <<>>
    ELSE IF i = 0 THEN <<p>>
    ELSE (IF i = 1 THEN <<>> ELSE <<SubSeq(p, 1, i - 1)>>)
         \o SplitSlash(SubSeq(p, i + 1, Len(p)))

Dot == <<".">>

DotDot == <<".", ".">>

\* filepath.Clean's element pass: "." dropped, ".." removes the element before
\* it, a ".." that has nothing to remove is dropped when rooted and kept otherwise
RECURSIVE CleanElems(_, _, _)
CleanElems(elems, out, rooted) ==
    IF elems = <<>> THEN out
    ELSE LET e == Head(elems) IN
         IF e = Dot THEN CleanElems(Tail(elems), out, rooted)
         ELSE IF e = DotDot
              THEN IF out # <<>> /\ out[Len(out)] # DotDot
                   THEN CleanElems(Tail(elems), SubSeq(out, 1, Len(out) - 1), rooted)
                   ELSE IF rooted THEN CleanElems(Tail(elems), out, rooted)
                   ELSE CleanElems(Tail(elems), Append(out, e), rooted)
              ELSE CleanElems(Tail(elems), Append(out, e), rooted)

RECURSIVE JoinSlash(_)
JoinSlash(elems) ==
    IF elems = <<>> THEN <<>>
    ELSE IF Len(elems) = 1 THEN elems[1]
    ELSE elems[1] \o <<"/">> \o JoinSlash(Tail(elems))

Clean(p) ==
    LET rooted == p # <<>> /\ p[1] = "/"
        body == JoinSlash(CleanElems(SplitSlash(p), <<>>, rooted))
        out == IF rooted THEN <<"/">> \o body ELSE body
    IN IF out = <<>> THEN Dot ELSE out

\* filepath.Join(dir, name)
Join(dir, name) ==
    IF dir = <<>> /\ name = <<>> THEN <<>>
    ELSE IF dir = <<>> THEN Clean(name)
    ELSE IF name = <<>> THEN Clean(dir)
    ELSE Clean(dir \o <<"/">> \o name)

\* filepath.Dir and filepath.Base of a cleaned path
LastSlash(p) == IF Contains(p, "/") THEN CHOOSE i \in 1..Len(p) : p[i] = "/" /\ \A j \in (i + 1)..Len(p) : p[j] # "/" ELSE 0

Base(p) == SubSeq(p, LastSlash(p) + 1, Len(p))

Dir(p) ==
    IF LastSlash(p) = 0 THEN Dot
    ELSE IF LastSlash(p) = 1 THEN <<"/">>
    ELSE SubSeq(p, 1, LastSlash(p) - 1)

(***************************************************************************)
(* Path sanitizer                                                          *)
(***************************************************************************)
\* dataDir / DATA_DIR: the storage directory
DataDir == <<"/", "d", "a", "t", "a">>

NameMax == 255

Dash == <<"-">>

XmlExt == <<".", "x", "m", "l">>

ResponseSuffix == <<"r", "e", "s", "p", "o", "n", "s", "e">>

\* the character class of the pattern [<>:"/\\|?*]+
UnsafeChars == {"<", ">", ":", "\"", "/", "\\", "|", "?", "*"}

\* mutation of ReplaceRuns: a character class that misses '*'
ReplaceRunsKeepStar(s) ==
    SelectSeq([i \in 1..Len(s) |->
                  IF s[i] \notin UnsafeChars \ {"*"} THEN s[i]
                  ELSE IF i < Len(s) /\ s[i + 1] \in UnsafeChars \ {"*"} THEN ""
                  ELSE "_"],
              LAMBDA c : c # "")

\* regexp ReplaceAllString(filename, "_"): every maximal run of class
\* characters becomes one underscore
ReplaceRuns(s) ==
    SelectSeq([i \in 1..Len(s) |->
                  IF s[i] \notin UnsafeChars THEN s[i]
                  ELSE IF i < Len(s) /\ s[i + 1] \in UnsafeChars THEN ""
                  ELSE "_"],
              LAMBDA c : c # "")

\* the request target the file name is built from
TargetOf(r) ==
    IF r.RequestURI # <<>> THEN r.RequestURI
    ELSE IF r.RawQuery # <<>> THEN r.Path \o <<"?">> \o r.RawQuery
    ELSE r.Path

\* CreateFilePath up to the truncation: the identifier of the artifact
FileName(r, suffix, extension) ==
    LET path == TrimPrefix(TargetOf(r), <<"/">>)
        filename == r.Method \o Dash \o path
                    \o (IF suffix # <<>> THEN Dash \o suffix ELSE <<>>)
                    \o extension
        sanitized == TrimSpace(ReplaceRuns(Clean(filename)))
    IN IF Len(sanitized) > NameMax THEN SubSeq(sanitized, 1, NameMax) ELSE sanitized

CreateFilePath(r, suffix, extension) == Join(DataDir, FileName(r, suffix, extension))

\* legacy: strings.ReplaceAll of each listed character, one for one
LegacyUnsafeChars == {"/", "\\", ":", "*", "?", "\"", "<", ">", "|", "&", "="}

sanitizeString(tag) ==
    LET t == TrimSpace(tag)
    IN [i \in 1..Len(t) |-> IF t[i] \in LegacyUnsafeChars THEN "_" ELSE t[i]]

\* legacy saveBody's file name; xml is isXML of the prettified content
LegacyFileName(r, suffix, xml) ==
    r.Method \o Dash \o sanitizeString(TrimPrefix(TargetOf(r), <<"/">>))
    \o (IF suffix # <<>> THEN Dash \o suffix ELSE <<>>)
    \o (IF xml THEN XmlExt ELSE <<>>)

LegacyFilePath(r, suffix, xml) == Join(DataDir, LegacyFileName(r, suffix, xml))

\* a path directly inside the storage directory
IsDirectChild(p) ==
    /\ Dir(p) = DataDir
    /\ Base(p) \notin {<<>>, Dot, DotDot}

(***************************************************************************)
(* Bodies: sequences of lexical items                                      *)
(*   open n   <n ...>            close n   </n>                            *)
(*   text v   character data v   nl d      "\n" and d two-space indents    *)
(*   prolog   <?xml ...?>        junk n    malformed markup starting "<n"  *)
(*   badpct   an invalid percent escape such as "%zz"                      *)
(* e = TRUE: the item's bytes are percent-encoded (query escaping), so     *)
(* they hold no markup character until they are unescaped.                 *)
(***************************************************************************)
Tok(k, n, v, d) == [k |-> k, n |-> n, v |-> v, e |-> FALSE, d |-> d]

Open(n) == Tok("open", n, <<>>, 0)

Close(n) == Tok("close", n, <<>>, 0)

Text(v) == Tok("text", "", v, 0)

Nl(d) == Tok("nl", "", <<>>, d)

Enc(t) == [t EXCEPT !.e = TRUE]

EncAll(b) == [i \in DOMAIN b |-> Enc(b[i])]

\* the bytes "data="
FormPrefix == Text(<<"d", "a", "t", "a", "=">>)

\* what the XML decoder sees as character data
IsCharData(t) == t.e \/ t.k \in {"text", "nl", "badpct"}

IsStart(t) == ~t.e /\ t.k = "open"

IsEnd(t) == ~t.e /\ t.k = "close"

\* the item's first byte is '<'
StartsWithAngle(t) == ~t.e /\ t.k \in {"open", "close", "prolog", "junk"}

IsBlank(t) == ~t.e /\ t.k = "nl"

\* bytes.TrimSpace on a body: leading and trailing all-whitespace items go
RECURSIVE TrimBlankLeft(_)
TrimBlankLeft(b) == IF b # <<>> /\ IsBlank(Head(b)) THEN TrimBlankLeft(Tail(b)) ELSE b

\* url.QueryUnescape of the items after "data=": fails on an invalid escape
QueryUnescape(b) ==
    IF \E i \in DOMAIN b : b[i].k = "badpct"
    THEN [ok |-> FALSE, out |-> <<>>]
    ELSE [ok |-> TRUE, out |-> [i \in DOMAIN b |-> [b[i] EXCEPT !.e = FALSE]]]

\* the form decoding step of SaveBody / saveBody / saveRequestBody
DecodeForm(content) ==
    IF content # <<>> /\ Head(content) = FormPrefix
    THEN LET r == QueryUnescape(Tail(content))
         IN IF r.ok THEN r.out ELSE content
    ELSE content

(***************************************************************************)
(* encoding/xml decoder: the open-element stack                            *)
(***************************************************************************)
\* FirstEnd(b, i, stk): the decoder reads items i.. of b with stk the names of the
\* open elements.  Result: the position of the first item at which Token
\* returns an EndElement (IsXML), or 0 when an error or the end comes first.
RECURSIVE FirstEnd(_, _, _)
FirstEnd(b, i, stk) ==
    IF i > Len(b) THEN 0
    ELSE LET t == b[i] IN
         IF IsCharData(t) \/ (~t.e /\ t.k = "prolog") THEN FirstEnd(b, i + 1, stk)
         ELSE IF IsStart(t) THEN FirstEnd(b, i + 1, Append(stk, t.n))
         ELSE IF IsEnd(t)
              THEN IF stk # <<>> /\ stk[Len(stk)] = t.n THEN i ELSE 0
              ELSE 0

\* mutation of IsXML: any closing tag counts, matched or not
IsXMLAnyEnd(data) == Len(data) > 0 /\ \E i \in 1..Len(data) : IsEnd(data[i])

IsXML(data) == Len(data) > 0 /\ FirstEnd(data, 1, <<>>) # 0

\* the whole input decodes without a syntax error (every Token call up to
\* io.EOF succeeds): tags balanced and nothing left open at the end
RECURSIVE DecodesFrom(_, _, _)
DecodesFrom(b, i, stk) ==
    IF i > Len(b) THEN stk = <<>>
    ELSE LET t == b[i] IN
         IF IsCharData(t) \/ (~t.e /\ t.k = "prolog") THEN DecodesFrom(b, i + 1, stk)
         ELSE IF IsStart(t) THEN DecodesFrom(b, i + 1, Append(stk, t.n))
         ELSE IF IsEnd(t)
              THEN stk # <<>> /\ stk[Len(stk)] = t.n
                   /\ DecodesFrom(b, i + 1, SubSeq(stk, 1, Len(stk) - 1))
              ELSE FALSE

DecodesAll(b) == DecodesFrom(b, 1, <<>>)

\* the position of the end tag that closes the element opened at i, 0 on error
RECURSIVE MatchEndFrom(_, _, _)
MatchEndFrom(b, i, stk) ==
    IF i > Len(b) THEN 0
    ELSE LET t == b[i] IN
         IF IsCharData(t) \/ (~t.e /\ t.k = "prolog") THEN MatchEndFrom(b, i + 1, stk)
         ELSE IF IsStart(t) THEN MatchEndFrom(b, i + 1, Append(stk, t.n))
         ELSE IF IsEnd(t)
              THEN IF stk # <<>> /\ stk[Len(stk)] = t.n
                   THEN IF Len(stk) = 1 THEN i
                        ELSE MatchEndFrom(b, i + 1, SubSeq(stk, 1, Len(stk) - 1))
                   ELSE 0
              ELSE 0

MatchEnd(b, i) == MatchEndFrom(b, i + 1, <<b[i].n>>)

(***************************************************************************)
(* PrettifyXML: decode every token, encode it with Indent("", "  ")        *)
(***************************************************************************)
\* the encoder's printer: depth, indentedIn, putNewline (printer.writeIndent)
RECURSIVE Encode(_, _, _, _, _)
Encode(b, i, depth, indentedIn, putNewline) ==
    IF i > Len(b) THEN <<>>
    ELSE LET t == b[i] IN
         IF IsStart(t)
         THEN (IF putNewline THEN <<Nl(depth)>> ELSE <<>>) \o <<t>>
              \o Encode(b, i + 1, depth + 1, TRUE, TRUE)
         ELSE IF IsEnd(t)
         THEN IF indentedIn
              THEN <<t>> \o Encode(b, i + 1, depth - 1, FALSE, putNewline)
              ELSE (IF putNewline THEN <<Nl(depth - 1)>> ELSE <<>>) \o <<t>>
                   \o Encode(b, i + 1, depth - 1, FALSE, TRUE)
         ELSE <<t>> \o Encode(b, i + 1, depth, indentedIn, putNewline)

\* a ProcInst with target xml is encodable only as the first output
EncodeFails(b) == \E i \in 2..Len(b) : ~b[i].e /\ b[i].k = "prolog"

\* the number of items the decoder hands over before its first error
RECURSIVE DecodedBeforeError(_, _, _)
DecodedBeforeError(b, i, stk) ==
    IF i > Len(b) THEN Len(b)
    ELSE LET t == b[i] IN
         IF IsCharData(t) \/ (~t.e /\ t.k = "prolog") THEN DecodedBeforeError(b, i + 1, stk)
         ELSE IF IsStart(t) THEN DecodedBeforeError(b, i + 1, Append(stk, t.n))
         ELSE IF IsEnd(t) /\ stk # <<>> /\ stk[Len(stk)] = t.n
              THEN DecodedBeforeError(b, i + 1, SubSeq(stk, 1, Len(stk) - 1))
              ELSE i - 1

\* mutation of PrettifyXML: a decoder error ends the loop (break) instead of
\* returning the input, so what was encoded up to the error is returned
PrettifyXMLBreakOnError(input) ==
    LET trimmed == TrimBlankLeft(input) IN
    IF trimmed = <<>> \/ ~StartsWithAngle(Head(trimmed)) THEN input
    ELSE IF EncodeFails(input) THEN input
    ELSE LET out == Encode(SubSeq(input, 1, DecodedBeforeError(input, 1, <<>>)),
                           1, 0, FALSE, FALSE)
         IN IF Len(out) > 0 THEN out ELSE input

PrettifyXML(input) ==
    LET trimmed == TrimBlankLeft(input) IN
    IF trimmed = <<>> \/ ~StartsWithAngle(Head(trimmed)) THEN input
    ELSE IF ~DecodesAll(input) \/ EncodeFails(input) THEN input
    ELSE LET out == Encode(input, 1, 0, FALSE, FALSE)
         IN IF Len(out) > 0 THEN out ELSE input

(***************************************************************************)
(* Redaction: the pattern <update[^>]*>.*?</update>                        *)
(***************************************************************************)
\* element names that begin with "update": "<update[^>]*>" matches their tags
UpdatePrefixed == {"update", "updates"}

MatchesUpdateOpen(t) == ~t.e /\ t.k \in {"open"} /\ t.n \in UpdatePrefixed

MatchesUpdateClose(t) == ~t.e /\ t.k = "close" /\ t.n = "update"

\* position of the first "</update>" after i, 0 if none.  Without the (?s)
\* flag (dotAll = FALSE) "." does not match a newline.
RECURSIVE UpdateCloseAfter(_, _, _)
UpdateCloseAfter(b, i, dotAll) ==
    IF i > Len(b) THEN 0
    ELSE IF MatchesUpdateClose(b[i]) THEN i
    ELSE IF ~dotAll /\ b[i].k = "nl" THEN 0
    ELSE UpdateCloseAfter(b, i + 1, dotAll)

\* ReplaceAll(content, []byte{}): leftmost matches, not overlapping
RECURSIVE RemoveUpdates(_, _)
RemoveUpdates(b, dotAll) ==
    IF b = <<>> THEN <<>>
    ELSE LET j == UpdateCloseAfter(b, 2, dotAll) IN
         IF MatchesUpdateOpen(Head(b)) /\ j # 0
         THEN RemoveUpdates(SubSeq(b, j + 1, Len(b)), dotAll)
         ELSE <<Head(b)>> \o RemoveUpdates(Tail(b), dotAll)

(***************************************************************************)
(* strconv                                                                 *)
(***************************************************************************)
Digits == {"0", "1", "2", "3", "4", "5", "6", "7", "8", "9"}

DigitVal(c) ==
    CASE c = "0" -> 0 [] c = "1" -> 1 [] c = "2" -> 2 [] c = "3" -> 3 [] c = "4" -> 4
      [] c = "5" -> 5 [] c = "6" -> 6 [] c = "7" -> 7 [] c = "8" -> 8 [] c = "9" -> 9

AllDigits(s) == \A i \in 1..Len(s) : s[i] \in Digits

RECURSIVE Num(_)
Num(s) == IF s = <<>> THEN 0 ELSE 10 * Num(SubSeq(s, 1, Len(s) - 1)) + DigitVal(s[Len(s)])

Unsigned(s) == IF s # <<>> /\ Head(s) \in {"-", "+"} THEN Tail(s) ELSE s

Signed(s, n) == IF s # <<>> /\ Head(s) = "-" THEN 0 - n ELSE n

\* strconv.Atoi: [ok, val]; val is 0 on error
Atoi(s) ==
    LET u == Unsigned(s) IN
    IF u # <<>> /\ AllDigits(u) THEN [ok |-> TRUE, val |-> Signed(s, Num(u))]
    ELSE [ok |-> FALSE, val |-> 0]

\* strconv.ParseFloat; the value is kept in tenths, which is what %.1f prints
\* (a second decimal of 5 or more rounds the tenth up)
ParseFloat(s) ==
    LET u == Unsigned(s)
        dot == IndexOf(u, ".")
        ip == IF dot = 0 THEN u ELSE SubSeq(u, 1, dot - 1)
        fp == IF dot = 0 THEN <<>> ELSE SubSeq(u, dot + 1, Len(u))
        tenth == IF fp = <<>> THEN 0 ELSE DigitVal(fp[1])
        up == IF Len(fp) >= 2 /\ DigitVal(fp[2]) >= 5 THEN 1 ELSE 0
    IN IF (ip # <<>> \/ fp # <<>>) /\ AllDigits(ip) /\ AllDigits(fp)
       THEN [ok |-> TRUE, val |-> Signed(s, 10 * Num(ip) + tenth + up)]
       ELSE [ok |-> FALSE, val |-> 0]

(***************************************************************************)
(* xml.Unmarshal into Status                                               *)
(***************************************************************************)
\* the first StartElement, 0 when the input ends or fails before one
RECURSIVE FirstStartFrom(_, _)
FirstStartFrom(b, i) ==
    IF i > Len(b) THEN 0
    ELSE IF IsStart(b[i]) THEN i
    ELSE IF IsCharData(b[i]) \/ (~b[i].e /\ b[i].k = "prolog") THEN FirstStartFrom(b, i + 1)
    ELSE 0

\* the positions of the child elements of the element spanning i..e, in order
RECURSIVE KidsFrom(_, _, _, _)
KidsFrom(b, j, e, depth) ==
    IF j >= e THEN <<>>
    ELSE IF IsStart(b[j])
         THEN (IF depth = 0 THEN <<j>> ELSE <<>>) \o KidsFrom(b, j + 1, e, depth + 1)
    ELSE IF IsEnd(b[j]) THEN KidsFrom(b, j + 1, e, depth - 1)
    ELSE KidsFrom(b, j + 1, e, depth)

Kids(b, i) == KidsFrom(b, i + 1, MatchEnd(b, i), 0)

KidsNamed(b, i, n) == SelectSeq(Kids(b, i), LAMBDA j : b[j].n = n)

\* the last child named n of element i (a repeated element overwrites the field)
LastKid(b, i, n) ==
    LET ks == KidsNamed(b, i, n) IN IF ks = <<>> THEN 0 ELSE ks[Len(ks)]

\* the character data of element j
ElemText(b, j) ==
    IF j = 0 THEN <<>>
    ELSE IF ~b[j + 1].e /\ b[j + 1].k = "text" THEN TrimSpace(b[j + 1].v)
    ELSE IF IsCharData(b[j + 1]) /\ b[j + 1].k # "nl" THEN <<"%">>
    ELSE <<>>

\* copyValue into an int / float64 field: absent or empty data leaves 0
IntField(b, j) ==
    IF ElemText(b, j) = <<>> THEN [ok |-> TRUE, val |-> 0] ELSE Atoi(ElemText(b, j))

FloatField(b, j) ==
    IF ElemText(b, j) = <<>> THEN [ok |-> TRUE, val |-> 0] ELSE ParseFloat(ElemText(b, j))

ZoneFields(b, z) ==
    [rt |-> FloatField(b, LastKid(b, z, "rt")),
     rh |-> IntField(b, LastKid(b, z, "rh")),
     htsp |-> FloatField(b, LastKid(b, z, "htsp")),
     clsp |-> FloatField(b, LastKid(b, z, "clsp"))]

ZoneOf(f) ==
    [CurrentTemp |-> f.rt.val, RelativeHumidity |-> f.rh.val,
     HeatSetPoint |-> f.htsp.val, CoolSetPoint |-> f.clsp.val]

ZoneOk(f) == f.rt.ok /\ f.rh.ok /\ f.htsp.ok /\ f.clsp.ok

\* the zone elements of every zones child, in document order
RECURSIVE ZoneIdx(_, _)
ZoneIdx(b, zs) ==
    IF zs = <<>> THEN <<>> ELSE KidsNamed(b, Head(zs), "zone") \o ZoneIdx(b, Tail(zs))

ZeroStatus ==
    [LocalTime |-> <<>>, OAT |-> 0, FiltrLvl |-> 0, CFM |-> 0, OPSTAT |-> <<>>,
     Zones |-> <<>>]

\* xml.Unmarshal(xmlData, &status): [ok, status]
Unmarshal(data) ==
    LET i == FirstStartFrom(data, 1) IN
    IF i = 0 \/ data[i].n # "status" \/ MatchEnd(data, i) = 0
    THEN [ok |-> FALSE, status |-> ZeroStatus]
    ELSE LET oat == FloatField(data, LastKid(data, i, "oat"))
             lvl == IntField(data, LastKid(data, i, "filtrlvl"))
             idu == LastKid(data, i, "idu")
             cfm == IF idu = 0 THEN [ok |-> TRUE, val |-> 0]
                    ELSE IntField(data, LastKid(data, idu, "cfm"))
             ops == IF idu = 0 THEN <<>> ELSE ElemText(data, LastKid(data, idu, "opstat"))
             zi == ZoneIdx(data, KidsNamed(data, i, "zones"))
             zf == [k \in DOMAIN zi |-> ZoneFields(data, zi[k])]
         IN IF oat.ok /\ lvl.ok /\ cfm.ok /\ \A k \in DOMAIN zf : ZoneOk(zf[k])
            THEN [ok |-> TRUE,
                  status |-> [LocalTime |-> ElemText(data, LastKid(data, i, "localTime")),
                              OAT |-> oat.val, FiltrLvl |-> lvl.val, CFM |-> cfm.val,
                              OPSTAT |-> ops,
                              Zones |-> [k \in DOMAIN zf |-> ZoneOf(zf[k])]]]
            ELSE [ok |-> FALSE, status |-> ZeroStatus]

(***************************************************************************)
(* time.Parse of localTime                                                 *)
(***************************************************************************)
\* len("2006-01-02T15:04:05")
DateTimeLen == 19

Two(s, i) == Num(SubSeq(s, i, i + 1))

\* the date-time prefix 2006-01-02T15:04:05 with its fields in range
DateTimeOk(s) ==
    /\ Len(s) >= DateTimeLen
    /\ s[5] = "-" /\ s[8] = "-" /\ s[11] = "T" /\ s[14] = ":" /\ s[17] = ":"
    /\ \A i \in {1, 2, 3, 4, 6, 7, 9, 10, 12, 13, 15, 16, 18, 19} : s[i] \in Digits
    /\ Two(s, 6) \in 1..12 /\ Two(s, 9) \in 1..31
    /\ Two(s, 12) \in 0..23 /\ Two(s, 15) \in 0..59 /\ Two(s, 18) \in 0..59

ZoneTail(s) == SubSeq(s, DateTimeLen + 1, Len(s))

\* Z or a numeric offset with a colon (layout Z07:00)
ColonZoneOk(z) ==
    \/ z = <<"Z">>
    \/ /\ Len(z) = 6 /\ z[1] \in {"+", "-"} /\ z[4] = ":"
       /\ \A i \in {2, 3, 5, 6} : z[i] \in Digits
       /\ Two(z, 2) \in 0..23 /\ Two(z, 5) \in 0..59

\* a numeric offset without a colon (layout -0700)
NumZoneOk(z) ==
    /\ Len(z) = 5 /\ z[1] \in {"+", "-"}
    /\ \A i \in {2, 3, 4, 5} : z[i] \in Digits
    /\ Two(z, 2) \in 0..23 /\ Two(z, 4) \in 0..59

ParsesRFC3339(s) == DateTimeOk(s) /\ ColonZoneOk(ZoneTail(s))

ParsesNumZone(s) == DateTimeOk(s) /\ NumZoneOk(ZoneTail(s))

\* strings.LastIndex(fixed, ":") as a 0-based index, -1 when absent
LastColon(s) ==
    IF Contains(s, ":")
    THEN (CHOOSE i \in 1..Len(s) : s[i] = ":" /\ \A j \in (i + 1)..Len(s) : s[j] # ":") - 1
    ELSE 0 - 1

\* the fallback: one colon beyond the date-time prefix is removed
FixColon(s) ==
    LET i == LastColon(s) IN
    IF i > DateTimeLen THEN SubSeq(s, 1, i) \o SubSeq(s, i + 2, Len(s)) ELSE s

\* t.Format("20060102150405")
Stamp(s) ==
    SubSeq(s, 1, 4) \o SubSeq(s, 6, 7) \o SubSeq(s, 9, 10) \o SubSeq(s, 12, 13)
    \o SubSeq(s, 15, 16) \o SubSeq(s, 18, 19)

\* the digits printed on the localtime line
LocalTimeDigits(s) ==
    IF ParsesRFC3339(s) THEN Stamp(s)
    ELSE IF ParsesNumZone(FixColon(s)) THEN Stamp(FixColon(s))
    ELSE <<"0">>

(***************************************************************************)
(* Status.ToPrometheus                                                     *)
(***************************************************************************)
\* a printed value: %.1f of a float (kept in tenths), %d of an int, %s
ValF(x) == [t |-> "%.1f", i |-> x, s |-> <<>>]

ValD(x) == [t |-> "%d", i |-> x, s |-> <<>>]

ValS(x) == [t |-> "%s", i |-> 0, s |-> x]

HelpLine(name, help) == [l |-> "# HELP", name |-> name, text |-> help, val |-> ValD(0)]

TypeLine(name) == [l |-> "# TYPE", name |-> name, text |-> "gauge", val |-> ValD(0)]

ValueLine(name, val) == [l |-> "", name |-> name, text |-> "", val |-> val]

\* reading s.Zones.Zones[0] of an empty slice panics
ToPrometheusPanics(s) == Len(s.Zones) = 0

ToPrometheus(s, raw) ==
    << HelpLine("outdoorAirTemp", "degrees in F"), TypeLine("outdoorAirTemp"),
       ValueLine("outdoorAirTemp", ValF(s.OAT)),
       HelpLine("fanSpeed", "cubic feet minute"), TypeLine("fanSpeed"),
       ValueLine("fanSpeed", ValD(s.CFM)),
       HelpLine("Stage", "StageName"), TypeLine("Stage"),
       ValueLine("stage", IF raw THEN ValS(s.OPSTAT) ELSE ValD(Atoi(s.OPSTAT).val)),
       HelpLine("filter", "percent of filter life"), TypeLine("filter"),
       ValueLine("filter", ValD(s.FiltrLvl)),
       HelpLine("temperature", "indoor temp"), TypeLine("temperature"),
       ValueLine("temperature", ValF(s.Zones[1].CurrentTemp)),
       HelpLine("relativeHumidity", "indoor relative humidity"),
       TypeLine("relativeHumidity"),
       ValueLine("relativeHumidity", ValD(s.Zones[1].RelativeHumidity)),
       HelpLine("heatSetPoint", "heat set point"), TypeLine("heatSetPoint"),
       ValueLine("heatSetPoint", ValF(s.Zones[1].HeatSetPoint)),
       HelpLine("coolingSetPoint", "cooling set point"), TypeLine("coolingSetPoint"),
       ValueLine("coolingSetPoint", ValF(s.Zones[1].CoolSetPoint)),
       HelpLine("localtime", "last refreshed time"), TypeLine("localtime"),
       ValueLine("localtime", ValS(LocalTimeDigits(s.LocalTime))) >>

(***************************************************************************)
(* The file system: files maps the path of every regular file to its       *)
(* content; the storage directory exists or not; "/" always exists.        *)
(***************************************************************************)
MetricsName ==
    <<"m", "e", "t", "r", "i", "c", "s", "_", "l", "a", "s", "t", ".", "t", "x", "t">>

\* filepath.Join(os.Getenv("DATA_DIR"), "metrics_last.txt")
MetricsPath == Join(DataDir, MetricsName)

DirsOf(files, dirOk) == {<<"/">>} \cup (IF dirOk THEN {DataDir} ELSE {})

\* os.WriteFile(path, data, 0644): opens with O_CREATE|O_TRUNC and writes.  The
\* open fails when the path is a directory, when its parent is not a
\* directory, or on an I/O error (io = FALSE); then nothing changes.
CanWrite(files, dirOk, path) ==
    /\ path \notin DirsOf(files, dirOk)
    /\ Dir(path) \in DirsOf(files, dirOk)

WriteFile(files, dirOk, path, data, io) ==
    IF io /\ CanWrite(files, dirOk, path)
    THEN [q \in DOMAIN files \cup {path} |-> IF q = path THEN data ELSE files[q]]
    ELSE files

\* os.MkdirAll(dataDir, 0755): fails on an I/O error or when a regular file
\* is in the way
MkdirAll(files, dirOk, io) == dirOk \/ (io /\ DataDir \notin DOMAIN files)

(***************************************************************************)
(* Telemetry extraction, package hvac                                      *)
(***************************************************************************)
\* element names that begin with "status": strings.HasPrefix(s, "<status")
StatusPrefixed == {"status", "statuses"}

StartsWithStatus(t) == ~t.e /\ t.k \in {"open", "junk"} /\ t.n \in StatusPrefixed

HasStatusPrefix(data) ==
    LET s == TrimBlankLeft(data) IN s # <<>> /\ StartsWithStatus(Head(s))

\* SaveMetricsFromXML(xmlData): [out, files] with out one of
\*   "notstatus"  not HVAC status XML          "parse"  Unmarshal failed
\*   "panic"      ToPrometheus indexed Zones[0] of a document without zones
\*   "write"      the metrics file could not be written
\*   "ok"         the metrics file holds the new exposition text
\* ExportStatus is the part after xml.Unmarshal, u being its result.
ExportStatus(files, dirOk, u, raw, io) ==
    IF ~u.ok THEN [out |-> "parse", files |-> files]
    ELSE IF ToPrometheusPanics(u.status) THEN [out |-> "panic", files |-> files]
    ELSE IF io /\ CanWrite(files, dirOk, MetricsPath)
         THEN [out |-> "ok",
               files |-> WriteFile(files, dirOk, MetricsPath,
                                   ToPrometheus(u.status, raw), io)]
         ELSE [out |-> "write", files |-> files]

SaveMetricsFromXML(files, dirOk, xmlData, raw, io) ==
    IF ~HasStatusPrefix(xmlData) THEN [out |-> "notstatus", files |-> files]
    ELSE ExportStatus(files, dirOk, Unmarshal(xmlData), raw, io)

StatusSuffix == <<"/", "s", "t", "a", "t", "u", "s">>

\* SaveBody calls the extractor
CallsExtractor(r, isRequest) == HasSuffix(r.Path, StatusSuffix) /\ isRequest

\* the content SaveBody writes: decoded, redacted when BLOCK_UPDATES, prettified
SavedContent(content, block) ==
    LET decoded == DecodeForm(content)
    IN PrettifyXML(IF block THEN RemoveUpdates(decoded, TRUE) ELSE decoded)

\* the path SaveBody writes to
SavedPath(r, content, isRequest) ==
    CreateFilePath(r, IF isRequest THEN <<>> ELSE ResponseSuffix,
                   IF IsXML(DecodeForm(content)) THEN XmlExt ELSE <<>>)

\* what a capture leaves behind: panic (the handler's goroutine panicked), out
\* (the extractor's outcome, "none" when it is not called), files, dirOk, wrote
\* (the artifact was written), path and data (the artifact), expo (the
\* exposition text a successful extraction stored)
Outcome(panic, out, files, dirOk, wrote, path, data, expo) ==
    [panic |-> panic, out |-> out, files |-> files, dirOk |-> dirOk, wrote |-> wrote,
     path |-> path, data |-> data, expo |-> expo]

\* SaveBody after the extractor returned m: the artifact is written to path
StoreArtifact(m, dirOk, path, data, io) ==
    IF m.out = "panic"
    THEN Outcome(TRUE, m.out, m.files, dirOk, FALSE, path, data, <<>>)
    ELSE Outcome(FALSE, m.out, WriteFile(m.files, dirOk, path, data, io), dirOk,
                 io /\ CanWrite(m.files, dirOk, path), path, data,
                 IF m.out = "ok" THEN m.files[MetricsPath] ELSE <<>>)

\* mutation of SaveBody: the empty-body check is missing
SaveBodyNoEmptyCheck(files, dirOk, r, content, isRequest, block, raw, io1, io2) ==
    StoreArtifact(IF CallsExtractor(r, isRequest)
                  THEN SaveMetricsFromXML(files, dirOk, DecodeForm(content), raw, io1)
                  ELSE [out |-> "none", files |-> files],
                  dirOk, SavedPath(r, content, isRequest),
                  SavedContent(content, block), io2)

\* SaveBody(r, content, isRequest); io1 and io2 are the outcomes of the two
\* writes
SaveBody(files, dirOk, r, content, isRequest, block, raw, io1, io2) ==
    IF Len(content) = 0
    THEN Outcome(FALSE, "none", files, dirOk, FALSE, <<>>, <<>>, <<>>)
    ELSE StoreArtifact(IF CallsExtractor(r, isRequest)
                       THEN SaveMetricsFromXML(files, dirOk, DecodeForm(content), raw, io1)
                       ELSE [out |-> "none", files |-> files],
                       dirOk, SavedPath(r, content, isRequest),
                       SavedContent(content, block), io2)

(***************************************************************************)
(* Legacy program (src/unnamed/part_002)                                   *)
(***************************************************************************)
isHVACXML(b) ==
    LET s == TrimBlankLeft(b) IN
    /\ s # <<>>
    /\ \/ StartsWithStatus(Head(s))
       \/ /\ ~Head(s).e /\ Head(s).k = "prolog"
          /\ \E i \in 1..Len(s) : StartsWithStatus(s[i])

\* var metrics = &Metrics{}
ZeroMetrics ==
    [OutdoorAirTemp |-> 0, FanCFM |-> 0, FilterLifePct |-> 0, IndoorTemp |-> 0,
     IndoorRH |-> 0, HeatSP |-> 0, CoolSP |-> 0, LocalTimeParsed |-> <<>>]

updateMetrics(m, s) ==
    LET z == s.Zones[1]
        m1 == [m EXCEPT !.OutdoorAirTemp = s.OAT, !.FanCFM = s.CFM,
                        !.FilterLifePct = s.FiltrLvl]
        m2 == IF Len(s.Zones) > 0
              THEN [m1 EXCEPT !.IndoorTemp = z.CurrentTemp,
                              !.IndoorRH = z.RelativeHumidity,
                              !.HeatSP = z.HeatSetPoint, !.CoolSP = z.CoolSetPoint]
              ELSE m1
    IN IF ParsesRFC3339(s.LocalTime)
       THEN [m2 EXCEPT !.LocalTimeParsed = Stamp(s.LocalTime)]
       ELSE m2

\* the metrics part of saveRequestBody; u is xml.Unmarshal's result
StoreStatus(m, u) == IF u.ok THEN updateMetrics(m, u.status) ELSE m

LegacyExtract(m, body) ==
    IF isHVACXML(DecodeForm(body)) THEN StoreStatus(m, Unmarshal(DecodeForm(body)))
    ELSE m

\* metricsHandler: the exposition written from a snapshot m of the metrics; %d
\* of Atoi of LocalTimeParsed prints the stamp's digits, and 0 for the empty
\* string
metricsHandler(m) ==
    << HelpLine("outdoorAirTemp", "degrees in F"), TypeLine("outdoorAirTemp"),
       ValueLine("outdoorAirTemp", ValF(m.OutdoorAirTemp)),
       HelpLine("fanSpeed", "cubic feet minute"), TypeLine("fanSpeed"),
       ValueLine("fanSpeed", ValD(m.FanCFM)),
       HelpLine("Stage", "StageName"), TypeLine("Stage"),
       ValueLine("Stage", ValD(0)),
       HelpLine("filter", "% of filter life"), TypeLine("filter"),
       ValueLine("filter", ValD(m.FilterLifePct)),
       HelpLine("temperature", "indoor temp"), TypeLine("temperature"),
       ValueLine("temperature", ValF(m.IndoorTemp)),
       HelpLine("relativeHumidity", "indoor relative humidity"),
       TypeLine("relativeHumidity"),
       ValueLine("relativeHumidity", ValD(m.IndoorRH)),
       HelpLine("heatSetPoint", "heat set point"), TypeLine("heatSetPoint"),
       ValueLine("heatSetPoint", ValF(m.HeatSP)),
       HelpLine("coolingSetPoint", "cooling set point"), TypeLine("coolingSetPoint"),
       ValueLine("coolingSetPoint", ValF(m.CoolSP)),
       HelpLine("localtime", "last refreshed time"), TypeLine("localtime"),
       ValueLine("localtime", ValS(IF m.LocalTimeParsed = <<>> THEN <<"0">>
                                   ELSE m.LocalTimeParsed)) >>

LegacySavedContent(body) == PrettifyXML(DecodeForm(body))

LegacySavedPath(r, body, suffix) ==
    LegacyFilePath(r, suffix, IsXML(LegacySavedContent(body)))

\* saveBody after os.MkdirAll returned made
LegacyStore(files, made, path, data, io) ==
    IF ~made THEN Outcome(FALSE, "none", files, made, FALSE, path, data, <<>>)
    ELSE Outcome(FALSE, "none", WriteFile(files, made, path, data, io), made,
                 io /\ CanWrite(files, made, path), path, data, <<>>)

\* saveBody(r, body, suffix); io1 is MkdirAll's outcome, io2 the write's
saveBody(files, dirOk, r, body, suffix, io1, io2) ==
    IF Len(body) = 0 THEN Outcome(FALSE, "none", files, dirOk, FALSE, <<>>, <<>>, <<>>)
    ELSE LegacyStore(files, MkdirAll(files, dirOk, io1), LegacySavedPath(r, body, suffix),
                     LegacySavedContent(body), io2)

(***************************************************************************)
(* Sample traffic                                                          *)
(***************************************************************************)
POST == <<"P", "O", "S", "T">>

StatusTarget == <<"/", "s", "t", "a", "t", "u", "s">>

FaviconTarget == <<"/", "f", "a", "v", "i", "c", "o", "n", ".", "i", "c", "o">>

ConfigTarget == <<"/", "c", "f", "g">>

\* a target whose query holds a ".." element: /a?/../metrics_last.txt
TraversalTarget == <<"/", "a", "?", "/", ".", ".", "/">> \o MetricsName

Elem(n, v) == <<Open(n), Text(v), Close(n)>>

ZoneElem(rt, rh, htsp, clsp) ==
    <<Open("zone")>> \o Elem("rt", rt) \o Elem("rh", rh) \o Elem("htsp", htsp)
    \o Elem("clsp", clsp) \o <<Close("zone")>>

StatusDoc(time, oat, lvl, cfm, opstat, zones) ==
    <<Open("status")>> \o Elem("localTime", time) \o Elem("oat", oat)
    \o Elem("filtrlvl", lvl)
    \o <<Open("idu")>> \o Elem("cfm", cfm) \o Elem("opstat", opstat) \o <<Close("idu")>>
    \o <<Open("zones")>> \o zones \o <<Close("zones")>>
    \o <<Close("status")>>

\* a status reading shaped like the document of TestSaveBody_MetricsUpdate
DocA ==
    StatusDoc(<<"2", "0", "2", "5", "-", "1", "1", "-", "2", "1", "T", "1", "9", ":", "4", "9", ":", "4", "4", "-", "0", "5", ":", "0", "0">>, <<"7", "2">>, <<"9", "0">>, <<"1", "0", "0">>, <<"o", "f", "f">>,
              ZoneElem(<<"7", "0">>, <<"4", "0">>, <<"6", "8">>, <<"7", "5">>))

\* another reading, with a time that does not parse
DocB ==
    StatusDoc(<<"y", "e", "s", "t", "e", "r", "d", "a", "y">>, <<"6", "5", ".", "5">>, <<"7", "5">>, <<"5", "0", "0">>, <<"2">>,
              ZoneElem(<<"7", "2", ".", "0">>, <<"4", "5">>, <<"6", "8", ".", "0">>, <<"7", "4", ".", "0">>))

\* a status document without zones: <status><oat>55</oat></status>
DocNoZones == <<Open("status")>> \o Elem("oat", <<"5", "5">>) \o <<Close("status")>>

\* a truncated status document: <status><oat>63
DocTruncated == <<Open("status"), Open("oat"), Text(<<"6", "3">>)>>

\* <updates><update><version>14.02</version></update></updates>
DocUpdates ==
    <<Open("updates"), Open("update")>> \o Elem("version", <<"1", "4", ".", "0", "2">>)
    \o <<Close("update"), Close("updates")>>

PlainText == <<Text(<<"h", "e", "l", "l", "o">>)>>

\* data=<percent-encoded DocB>
FormDocB == <<FormPrefix>> \o EncAll(DocB)

Request(method, target, body) ==
    LET q == IndexOf(target, "?") IN
    [Method |-> method, RequestURI |-> target,
     Path |-> IF q = 0 THEN target ELSE SubSeq(target, 1, q - 1),
     RawQuery |-> IF q = 0 THEN <<>> ELSE SubSeq(target, q + 1, Len(target)),
     body |-> body]

Requests ==
    { Request(POST, StatusTarget, b) :
        b \in {DocA, FormDocB, DocNoZones, DocTruncated, PlainText, <<>>} }
    \cup { Request(POST, ConfigTarget, b) : b \in {DocA, PlainText} }
    \cup { Request(POST, TraversalTarget, PlainText),
           Request(POST, FaviconTarget, PlainText) }

Responses ==
    { [code |-> 200, body |-> DocUpdates], [code |-> 200, body |-> <<>>],
      [code |-> 500, body |-> PlainText] }

NoRequest == Request(<<>>, <<>>, <<>>)

NoResponse == [code |-> 0, body |-> <<>>]

\* http.NotFound and http.Error write the status text as the body
ErrorReply(code) == [code |-> code, body |-> <<Text(<<"e", "r", "r">>)>>]

(***************************************************************************)
(* The proxy                                                               *)
(***************************************************************************)
MaxRequests == 2

VARIABLES
    variant,       \* "hvac" or "legacy": which program runs
    blockUpdates,  \* os.Getenv("BLOCK_UPDATES") == "true"
    dirExists,     \* the storage directory exists
    files,         \* the regular files: path -> content
    metrics,       \* legacy: the in-memory Metrics
    pc,            \* where proxyHandler is
    req,           \* the inbound request (r and its body)
    resp,          \* what the upstream answered
    respBody,      \* proxyHandler's local respBody
    sent,          \* the requests the upstream received for req
    client,        \* what was written to the client
    served,        \* requests accepted so far
    lastExpo,      \* history: exposition text of the latest successful extraction
    owner,         \* history: path -> the (method, target, direction) that wrote it
    lastCap,       \* history: tuple -> content of its latest stored capture
    respSaved,     \* history: the response capture ran for req
    named,         \* the sanitizer's result for req (sanitizer specification)
    mqttClient,    \* "nil" or "connected": the package's MQTT client
    publishing,    \* the PublishMQTT goroutines that have not returned
    mu,            \* legacy: who holds metrics.mu ("free" when nobody)
    rd,            \* the /metrics handler: its position and its local copy
    wr             \* the os.WriteFile calls of overlapping captures

vars ==
    <<variant, blockUpdates, dirExists, files, metrics, pc, req, resp, respBody,
      sent, client, served, lastExpo, owner, lastCap, respSaved, named,
      mqttClient, publishing, mu, rd, wr>>

config == <<variant, blockUpdates, mqttClient>>

perRequest == <<req, resp, respBody, sent, client, respSaved>>

history == <<lastExpo, owner, lastCap>>

NoFiles == [q \in {} |-> <<>>]

NoReply == [code |-> 0, body |-> <<>>]

NoName == [id |-> <<>>, tag |-> <<>>, path |-> <<>>, isRequest |-> TRUE, xml |-> FALSE]

Init ==
    /\ variant \in {"hvac", "legacy"}
    /\ blockUpdates \in BOOLEAN
    /\ dirExists \in BOOLEAN
    /\ files = NoFiles
    /\ metrics = ZeroMetrics
    /\ pc = "idle"
    /\ req = NoRequest
    /\ resp = NoResponse
    /\ respBody = <<>>
    /\ sent = <<>>
    /\ client = NoReply
    /\ served = 0
    /\ lastExpo = <<>>
    /\ owner = NoFiles
    /\ lastCap = NoFiles
    /\ respSaved = FALSE
    /\ named = NoName
    /\ mqttClient = "nil"
    /\ publishing = 0
    /\ mu = "free"
    /\ rd = [pc |-> "idle", m |-> ZeroMetrics]
    /\ wr = <<>>

Tuple(r, isRequest) == <<r.Method, TargetOf(r), isRequest>>

Put(f, k, v) == [q \in DOMAIN f \cup {k} |-> IF q = k THEN v ELSE f[q]]

\* proxyHandler: the favicon check and the read of the request body
Receive(r) ==
    /\ pc = "idle"
    /\ served < MaxRequests
    /\ served' = served + 1
    /\ req' = r
    /\ IF r.Path = FaviconTarget
       THEN /\ client' = ErrorReply(404)
            /\ pc' = "done"
       ELSE /\ client' = client
            /\ pc' = "capreq"
    /\ UNCHANGED <<config, named, publishing, mu, rd, wr, dirExists, files, metrics, resp, respBody, sent, history,
                   respSaved>>

\* the state a capture with outcome o leaves: the file system, the handler's
\* position (then, unless it panicked) and the history of what was stored
Captured(o, isRequest, then) ==
    /\ files' = o.files
    /\ dirExists' = o.dirOk
    /\ pc' = IF o.panic THEN "panicked" ELSE then
    /\ lastExpo' = IF o.out = "ok" THEN o.expo ELSE lastExpo
    /\ lastCap' = IF o.wrote THEN Put(lastCap, Tuple(req, isRequest), o.data) ELSE lastCap
    /\ owner' = IF o.wrote THEN Put(owner, o.path, Tuple(req, isRequest)) ELSE owner
    /\ publishing' = IF mqttClient = "connected" /\ o.out \in {"panic", "write", "ok"}
                     THEN publishing + 1 ELSE publishing

\* hvac.SaveBody(r, body, true)
CaptureRequestHvac(io1, io2) ==
    /\ pc = "capreq"
    /\ variant = "hvac"
    /\ Captured(SaveBody(files, dirExists, req, req.body, TRUE, blockUpdates, FALSE,
                         io1, io2), TRUE, "forward")
    /\ UNCHANGED <<config, named, mu, rd, wr, metrics, perRequest, served>>

\* saveRequestBody(r, body)
CaptureRequestLegacy(io1, io2) ==
    /\ pc = "capreq"
    /\ variant = "legacy"
    /\ metrics' = LegacyExtract(metrics, req.body)
    /\ Captured(saveBody(files, dirExists, req, req.body, <<>>, io1, io2), TRUE,
                "forward")
    /\ UNCHANGED <<config, named, mu, rd, wr, perRequest, served>>

\* PublishMQTT returns: the client was not connected, or the publish went
\* through or failed (the failure is printed)
PublishMQTT ==
    /\ publishing > 0
    /\ publishing' = publishing - 1
    /\ UNCHANGED <<config, named, mu, rd, wr, dirExists, files, metrics, pc, perRequest,
                   served, history>>

\* mutation of Upstream: the decoded capture copy is forwarded
UpstreamDecoded(r, body) ==
    [Method |-> r.Method, RequestURI |-> r.RequestURI, body |-> DecodeForm(body)]

\* the request handed to http.DefaultClient.Do
Upstream(r, body) == [Method |-> r.Method, RequestURI |-> r.RequestURI, body |-> body]

\* Do returns a response
ForwardOk(rsp) ==
    /\ pc = "forward"
    /\ sent' = Append(sent, Upstream(req, req.body))
    /\ resp' = rsp
    /\ respBody' = rsp.body
    /\ pc' = "capresp"
    /\ UNCHANGED <<config, named, publishing, mu, rd, wr, dirExists, files, metrics, req, client, served, history,
                   respSaved>>

\* mutation of ForwardFail: a second attempt before the error reply
ForwardFailRetry ==
    /\ pc = "forward"
    /\ sent' = Append(Append(sent, [Method |-> req.Method, RequestURI |-> req.RequestURI,
                                    body |-> req.body]),
                      [Method |-> req.Method, RequestURI |-> req.RequestURI,
                       body |-> req.body])
    /\ client' = ErrorReply(502)
    /\ pc' = "done"
    /\ UNCHANGED <<config, named, publishing, mu, rd, wr, dirExists, files, metrics, req, resp, respBody, served,
                   history, respSaved>>

\* Do returns an error: http.Error(w, "Upstream error", 502)
ForwardFail ==
    /\ pc = "forward"
    /\ sent' = Append(sent, Upstream(req, req.body))
    /\ client' = ErrorReply(502)
    /\ pc' = "done"
    /\ UNCHANGED <<config, named, publishing, mu, rd, wr, dirExists, files, metrics, req, resp, respBody, served,
                   history, respSaved>>

\* hvac.SaveBody(r, respBody, false)
CaptureResponseHvac(io1, io2) ==
    /\ pc = "capresp"
    /\ variant = "hvac"
    /\ Captured(SaveBody(files, dirExists, req, respBody, FALSE, blockUpdates, FALSE,
                         io1, io2), FALSE, "reply")
    /\ respSaved' = TRUE
    /\ UNCHANGED <<config, named, mu, rd, wr, metrics, req, resp, respBody, sent, client, served>>

\* legacy: the body proxyHandler goes on with after the BLOCK_UPDATES step
Redacted(body, block) == IF block THEN RemoveUpdates(body, FALSE) ELSE body

\* legacy: respBody = re.ReplaceAll(respBody, ...) when BLOCK_UPDATES, then
\* saveResponseBody(r, respBody, resp.StatusCode)
CaptureResponseLegacy(io1, io2) ==
    /\ pc = "capresp"
    /\ variant = "legacy"
    /\ respBody' = Redacted(respBody, blockUpdates)
    /\ Captured(saveBody(files, dirExists, req, Redacted(respBody, blockUpdates),
                         ResponseSuffix, io1, io2), FALSE, "reply")
    /\ respSaved' = TRUE
    /\ UNCHANGED <<config, named, mu, rd, wr, metrics, req, resp, sent, client, served>>

\* w.WriteHeader(resp.StatusCode); w.Write(respBody)
Reply ==
    /\ pc = "reply"
    /\ client' = [code |-> resp.code, body |-> respBody]
    /\ pc' = "done"
    /\ UNCHANGED <<config, named, publishing, mu, rd, wr, dirExists, files, metrics, req, resp, respBody, sent, served,
                   history, respSaved>>

\* the handler has returned, or the server has recovered its panic
Finish ==
    /\ pc \in {"done", "panicked"}
    /\ pc' = "idle"
    /\ req' = NoRequest
    /\ resp' = NoResponse
    /\ respBody' = <<>>
    /\ sent' = <<>>
    /\ client' = NoReply
    /\ respSaved' = FALSE
    /\ UNCHANGED <<config, named, publishing, mu, rd, wr, dirExists, files, metrics, served, history>>

Next ==
    \/ \E r \in Requests : Receive(r)
    \/ \E io1, io2 \in BOOLEAN : CaptureRequestHvac(io1, io2)
    \/ \E io1, io2 \in BOOLEAN : CaptureRequestLegacy(io1, io2)
    \/ \E rsp \in Responses : ForwardOk(rsp)
    \/ ForwardFail
    \/ \E io1, io2 \in BOOLEAN : CaptureResponseHvac(io1, io2)
    \/ \E io1, io2 \in BOOLEAN : CaptureResponseLegacy(io1, io2)
    \/ Reply
    \/ Finish

Spec == Init /\ [][Next]_vars

(***************************************************************************)
(* The hvac program with the MQTT client connected: every extraction that  *)
(* gets past xml.Unmarshal starts a PublishMQTT goroutine                  *)
(***************************************************************************)
\* the proxy on storage without I/O errors: a write fails only when the file
\* system's state makes it fail (hvac: the write of the metrics file may still
\* fail on its own)
StoreSpec ==
    /\ Init
    /\ [][\/ \E r \in Requests : Receive(r)
          \/ \E io1 \in BOOLEAN : CaptureRequestHvac(io1, TRUE)
          \/ CaptureRequestLegacy(TRUE, TRUE)
          \/ \E rsp \in Responses : ForwardOk(rsp)
          \/ ForwardFail
          \/ CaptureResponseHvac(TRUE, TRUE)
          \/ CaptureResponseLegacy(TRUE, TRUE)
          \/ Reply
          \/ Finish]_vars

PubSpec ==
    /\ variant = "hvac" /\ blockUpdates = FALSE /\ dirExists = TRUE
    /\ files = NoFiles /\ metrics = ZeroMetrics /\ pc = "idle" /\ served = 0
    /\ req = NoRequest /\ resp = NoResponse /\ respBody = <<>> /\ sent = <<>>
    /\ client = NoReply /\ respSaved = FALSE /\ named = NoName
    /\ lastExpo = <<>> /\ owner = NoFiles /\ lastCap = NoFiles
    /\ mqttClient = "connected" /\ publishing = 0
    /\ mu = "free" /\ rd = [pc |-> "idle", m |-> ZeroMetrics] /\ wr = <<>>
    /\ [][\/ \E r \in Requests \cup {Request(POST, StatusTarget,
                                             <<Tok("prolog", "xml", <<>>, 0)>> \o DocA)} :
               Receive(r)
          \/ \E io1, io2 \in BOOLEAN : CaptureRequestHvac(io1, io2)
          \/ \E rsp \in Responses : ForwardOk(rsp)
          \/ ForwardFail
          \/ \E io1, io2 \in BOOLEAN : CaptureResponseHvac(io1, io2)
          \/ Reply
          \/ Finish
          \/ PublishMQTT]_vars

(***************************************************************************)
(* Legacy: updateMetrics and metricsHandler as concurrent goroutines that   *)
(* share the in-memory Metrics and its mutex                               *)
(***************************************************************************)
\* saveRequestBody's updateMetrics(status) for the status document in req.body:
\* Lock, the assignments of lines 71-73, 75-81 and 84-87, the deferred Unlock
UpdateMetricsStep ==
    /\ variant = "legacy"
    /\ \/ /\ pc = "idle" /\ served < MaxRequests
          /\ \E doc \in {DocA, DocB} : req' = Request(POST, StatusTarget, doc)
          /\ pc' = "lock"
          /\ UNCHANGED <<mu, metrics, served>>
       \/ /\ pc = "lock" /\ mu = "free"
          /\ mu' = "update" /\ pc' = "w1"
          /\ UNCHANGED <<req, metrics, served>>
       \/ /\ pc \in {"w1", "w2", "w3"}
          /\ \E full \in {updateMetrics(metrics, Unmarshal(req.body).status)} :
                metrics' = CASE pc = "w1" ->
                                  [metrics EXCEPT !.OutdoorAirTemp = full.OutdoorAirTemp,
                                                  !.FanCFM = full.FanCFM,
                                                  !.FilterLifePct = full.FilterLifePct]
                             [] pc = "w2" ->
                                  [metrics EXCEPT !.IndoorTemp = full.IndoorTemp,
                                                  !.IndoorRH = full.IndoorRH,
                                                  !.HeatSP = full.HeatSP,
                                                  !.CoolSP = full.CoolSP]
                             [] pc = "w3" ->
                                  [metrics EXCEPT !.LocalTimeParsed = full.LocalTimeParsed]
          /\ pc' = CASE pc = "w1" -> "w2" [] pc = "w2" -> "w3" [] pc = "w3" -> "unlock"
          /\ UNCHANGED <<req, mu, served>>
       \/ /\ pc = "unlock"
          /\ mu' = "free" /\ pc' = "idle" /\ served' = served + 1
          /\ UNCHANGED <<req, metrics>>
    /\ UNCHANGED <<config, named, publishing, rd, wr, dirExists, files, resp, respBody,
                   sent, client, respSaved, history>>

\* mutation of MetricsHandlerStep: the copy is taken without the mutex
MetricsHandlerNoLock ==
    /\ variant = "legacy"
    /\ \/ /\ rd.pc = "idle"
          /\ rd' = [rd EXCEPT !.pc = "locked"]
          /\ UNCHANGED <<mu, client>>
       \/ /\ rd.pc = "locked"
          /\ rd' = [pc |-> "copied", m |-> metrics]
          /\ UNCHANGED <<mu, client>>
       \/ /\ rd.pc = "copied"
          /\ rd' = [rd EXCEPT !.pc = "idle"]
          /\ client' = [code |-> 200, body |-> metricsHandler(rd.m)]
          /\ UNCHANGED mu
    /\ UNCHANGED <<config, named, publishing, wr, dirExists, files, metrics, pc, req, resp,
                   respBody, sent, respSaved, served, history>>

\* metricsHandler: Lock, m := *metrics, Unlock, then the exposition is written
\* from the copy m
MetricsHandlerStep ==
    /\ variant = "legacy"
    /\ \/ /\ rd.pc = "idle" /\ mu = "free"
          /\ mu' = "handler"
          /\ rd' = [rd EXCEPT !.pc = "locked"]
          /\ UNCHANGED client
       \/ /\ rd.pc = "locked"
          /\ rd' = [pc |-> "copied", m |-> metrics]
          /\ UNCHANGED <<mu, client>>
       \/ /\ rd.pc = "copied"
          /\ mu' = "free"
          /\ rd' = [rd EXCEPT !.pc = "idle"]
          /\ client' = [code |-> 200, body |-> metricsHandler(rd.m)]
    /\ UNCHANGED <<config, named, publishing, wr, dirExists, files, metrics, pc, req, resp,
                   respBody, sent, respSaved, served, history>>

MuSpec ==
    /\ variant = "legacy" /\ blockUpdates = FALSE /\ dirExists = TRUE
    /\ files = NoFiles /\ metrics = ZeroMetrics /\ pc = "idle" /\ served = 0
    /\ req = NoRequest /\ resp = NoResponse /\ respBody = <<>> /\ sent = <<>>
    /\ client = NoReply /\ respSaved = FALSE /\ named = NoName
    /\ lastExpo = <<>> /\ owner = NoFiles /\ lastCap = NoFiles
    /\ mqttClient = "nil" /\ publishing = 0
    /\ mu = "free" /\ rd = [pc |-> "idle", m |-> ZeroMetrics] /\ wr = <<>>
    /\ [][UpdateMetricsStep \/ MetricsHandlerStep]_vars

(***************************************************************************)
(* hvac: overlapping SaveBody calls and HandleMetrics on the same files.    *)
(* os.WriteFile is an open with O_TRUNC followed by a write at offset 0 of  *)
(* the writer's own descriptor; nothing serialises the calls.              *)
(***************************************************************************)
\* one SaveBody(r, body, true) of a POST to the status endpoint, run next to
\* others: it is entered (its writes are the extractor's metrics file, when the
\* extraction succeeds, and then the artifact), and each os.WriteFile opens
\* and truncates the file and then writes its data
OverlappingSaveBody ==
    /\ variant = "hvac"
    /\ \/ /\ Len(wr) < MaxRequests
          /\ \E body \in {DocA, DocB, DocUpdates} :
               \E o \in {SaveBody(files, dirExists, Request(POST, StatusTarget, body), body,
                                  TRUE, blockUpdates, FALSE, TRUE, TRUE)} :
                 wr' = Append(wr,
                              [open |-> FALSE,
                               todo |-> (IF o.out = "ok"
                                         THEN <<[path |-> MetricsPath, data |-> o.expo]>>
                                         ELSE <<>>)
                                        \o <<[path |-> o.path, data |-> o.data]>>])
          /\ UNCHANGED files
       \/ \E i \in 1..Len(wr) :
            /\ wr[i].todo # <<>> /\ ~wr[i].open
            /\ files' = Put(files, Head(wr[i].todo).path, <<>>)
            /\ wr' = [wr EXCEPT ![i].open = TRUE]
       \/ \E i \in 1..Len(wr) :
            /\ wr[i].open
            /\ \E w \in {Head(wr[i].todo)} :
                 files' = [files EXCEPT ![w.path] =
                             w.data \o SubSeq(@, Len(w.data) + 1, Len(@))]
            /\ wr' = [wr EXCEPT ![i] = [open |-> FALSE, todo |-> Tail(@.todo)]]
    /\ UNCHANGED <<config, named, publishing, mu, rd, dirExists, metrics, pc, perRequest,
                   served, history>>

\* HandleMetrics: os.ReadFile of the metrics file; 500 when it cannot be read,
\* else the content as it is
HandleMetrics ==
    /\ variant = "hvac"
    /\ client' = IF MetricsPath \in DOMAIN files
                 THEN [code |-> 200, body |-> files[MetricsPath]]
                 ELSE ErrorReply(500)
    /\ UNCHANGED <<config, named, publishing, mu, rd, wr, dirExists, files, metrics, pc,
                   req, resp, respBody, sent, respSaved, served, history>>

FileSpec ==
    /\ variant = "hvac" /\ blockUpdates = FALSE /\ dirExists = TRUE
    /\ files = NoFiles /\ metrics = ZeroMetrics /\ pc = "idle" /\ served = 0
    /\ req = NoRequest /\ resp = NoResponse /\ respBody = <<>> /\ sent = <<>>
    /\ client = NoReply /\ respSaved = FALSE /\ named = NoName
    /\ lastExpo = <<>> /\ owner = NoFiles /\ lastCap = NoFiles
    /\ mqttClient = "nil" /\ publishing = 0
    /\ mu = "free" /\ rd = [pc |-> "idle", m |-> ZeroMetrics] /\ wr = <<>>
    /\ [][OverlappingSaveBody \/ HandleMetrics]_vars

(***************************************************************************)
(* The path sanitizer on its own: every request of a bounded set is named  *)
(***************************************************************************)
MaxQueryLen == 3

\* the length of a query that makes the file name longer than NameMax
LongQueryLen == 300

Queries == UNION {[1..n -> {"b", ".", "/", "=", "&", "*", "?"}] : n \in 0..MaxQueryLen}

\* the mux hands the handler a clean path; the query is whatever was sent
PathTargets ==
    {<<"/", "a">>} \cup {<<"/", "a", "?">> \o q : q \in Queries}
    \cup {<<"/", "a", "?">> \o [i \in 1..LongQueryLen |-> "b"]}

\* the methods: GET, and an extension method (a token may hold '*')
PathRequests ==
    {Request(m, t, <<>>) : m \in {<<"G", "E", "T">>, <<"M", "*">>}, t \in PathTargets}

PathInit ==
    /\ variant \in {"hvac", "legacy"}
    /\ blockUpdates = FALSE
    /\ dirExists = TRUE
    /\ files = NoFiles
    /\ metrics = ZeroMetrics
    /\ pc = "idle"
    /\ req \in PathRequests
    /\ resp = NoResponse
    /\ respBody = <<>>
    /\ sent = <<>>
    /\ client = NoReply
    /\ served = 0
    /\ lastExpo = <<>>
    /\ owner = NoFiles
    /\ lastCap = NoFiles
    /\ respSaved = FALSE
    /\ named = NoName
    /\ mqttClient = "nil"
    /\ publishing = 0
    /\ mu = "free"
    /\ rd = [pc |-> "idle", m |-> ZeroMetrics]
    /\ wr = <<>>

\* CreateFilePath(r, isRequest, extension) as SaveBody calls it
NameHvac(isRequest, xml) ==
    /\ pc = "idle"
    /\ variant = "hvac"
    /\ named' = [id |-> FileName(req, IF isRequest THEN <<>> ELSE ResponseSuffix,
                                 IF xml THEN XmlExt ELSE <<>>),
                 tag |-> FileName(req, IF isRequest THEN <<>> ELSE ResponseSuffix,
                                  IF xml THEN XmlExt ELSE <<>>),
                 path |-> CreateFilePath(req, IF isRequest THEN <<>> ELSE ResponseSuffix,
                                         IF xml THEN XmlExt ELSE <<>>),
                 isRequest |-> isRequest, xml |-> xml]
    /\ pc' = "named"
    /\ UNCHANGED <<config, publishing, mu, rd, wr, dirExists, files, metrics, perRequest,
                   served, history>>

\* the file name and path of the legacy saveBody
NameLegacy(isRequest, xml) ==
    /\ pc = "idle"
    /\ variant = "legacy"
    /\ named' = [id |-> LegacyFileName(req, IF isRequest THEN <<>> ELSE ResponseSuffix,
                                       xml),
                 tag |-> sanitizeString(TrimPrefix(TargetOf(req), <<"/">>)),
                 path |-> LegacyFilePath(req, IF isRequest THEN <<>> ELSE ResponseSuffix,
                                         xml),
                 isRequest |-> isRequest, xml |-> xml]
    /\ pc' = "named"
    /\ UNCHANGED <<config, publishing, mu, rd, wr, dirExists, files, metrics, perRequest,
                   served, history>>

PathSpec ==
    /\ PathInit
    /\ [][\/ \E isRequest, xml \in BOOLEAN : NameHvac(isRequest, xml)
          \/ \E isRequest, xml \in BOOLEAN : NameLegacy(isRequest, xml)]_vars

(***************************************************************************)
(* PrettifyXML on its own: every body of a bounded set is prettified, and   *)
(* the result is prettified again                                          *)
(***************************************************************************)
MaxTokens == 4

\* the bodies of at most MaxTokens items: tags of two elements, text,
\* whitespace and an XML declaration
XmlBodies ==
    UNION {[1..n -> {Open("a"), Close("a"), Open("b"), Close("b"), Text(<<"x">>), Nl(0),
                     Tok("prolog", "xml", <<>>, 0)}] : n \in 0..MaxTokens}

\* req.body is the input, respBody the buffer the function is applied to
XmlInit ==
    /\ variant \in {"hvac", "legacy"}
    /\ blockUpdates = FALSE
    /\ dirExists = TRUE
    /\ files = NoFiles
    /\ metrics = ZeroMetrics
    /\ pc = "idle"
    /\ req \in {Request(POST, ConfigTarget, b) : b \in XmlBodies}
    /\ resp = NoResponse
    /\ respBody = req.body
    /\ sent = <<>>
    /\ client = NoReply
    /\ served = 0
    /\ lastExpo = <<>>
    /\ owner = NoFiles
    /\ lastCap = NoFiles
    /\ respSaved = FALSE
    /\ named = NoName
    /\ mqttClient = "nil"
    /\ publishing = 0
    /\ mu = "free"
    /\ rd = [pc |-> "idle", m |-> ZeroMetrics]
    /\ wr = <<>>

\* IsXML(content) and PrettifyXML(content) as SaveBody / saveBody apply them
\* to a buffer, on the input and then on the prettified result
Prettify ==
    /\ pc \in {"idle", "pretty"}
    /\ named' = [named EXCEPT !.xml = IsXML(respBody)]
    /\ respBody' = PrettifyXML(respBody)
    /\ pc' = IF pc = "idle" THEN "pretty" ELSE "again"
    /\ UNCHANGED <<config, publishing, mu, rd, wr, dirExists, files, metrics, req, resp, sent,
                   client, served, history, respSaved>>

XmlSpec == XmlInit /\ [][Prettify]_vars

(***************************************************************************)
(* Properties                                                              *)
(***************************************************************************)
\* the metrics snapshot HandleMetrics would serve: the file's content, if any
Snapshot == IF MetricsPath \in DOMAIN files THEN <<files[MetricsPath]>> ELSE <<>>

\* C1: no capture or extraction fails the enclosing request: SaveBody always
\* returns normally, for every body and storage outcome, so the handler never
\* panics and goes on to forward the request
C1_CaptureNeverFailsRequest == pc # "panicked"

\* C2: once the upstream has answered and the handler has replied, the client
\* holds the upstream's status code and body, byte for byte
C2_ClientGetsUpstreamReply ==
    (pc = "done" /\ resp # NoResponse) =>
        client = [code |-> resp.code, body |-> resp.body]

\* C3: every request the upstream receives carries the method, request target
\* and body bytes of the inbound request, and a favicon request is not forwarded
C3_UpstreamGetsRequest ==
    /\ \A i \in DOMAIN sent :
          sent[i] = [Method |-> req.Method, RequestURI |-> req.RequestURI,
                     body |-> req.body]
    /\ req.Path = FaviconTarget => sent = <<>>

\* C3 witness: a form-encoded body was captured (decoded) and then forwarded
C3_Witness == pc = "capresp" /\ req.body = FormDocB /\ Len(sent) = 1

\* C4: whenever metrics_last exists it holds the exposition text of the most
\* recent capture whose extraction succeeded
C4_SnapshotIsLatestExtraction == MetricsPath \in DOMAIN files => files[MetricsPath] = lastExpo

\* C5: a response capture, and a capture for a path that does not end with
\* /status, leaves the metrics snapshot unchanged
C5_OnlyStatusRequestsChangeSnapshot ==
    [][(pc = "capresp" \/ (pc = "capreq" /\ ~HasSuffix(req.Path, StatusSuffix)))
         => Snapshot' = Snapshot]_vars

\* C6: the storage directory holds at most one artifact per (method, target,
\* direction) tuple, and that artifact has the content of the tuple's most
\* recent stored capture
C6_OneArtifactPerTuple ==
    /\ \A p, q \in DOMAIN owner : owner[p] = owner[q] => p = q
    /\ \A p \in DOMAIN owner : files[p] = lastCap[owner[p]]

\* C7: a capture of an empty body changes no file, creates no directory and
\* leaves the metrics unchanged, for every path and direction
C7_EmptyCaptureIsNoOp ==
    [][((pc = "capreq" /\ req.body = <<>>) \/ (pc = "capresp" /\ respBody = <<>>))
         => (files' = files /\ dirExists' = dirExists /\ metrics' = metrics
             /\ Snapshot' = Snapshot)]_vars

\* C7 witness: an empty request to /status was captured while a snapshot existed
C7_Witness ==
    /\ pc = "forward" /\ req.body = <<>> /\ HasSuffix(req.Path, StatusSuffix)
    /\ Snapshot # <<>>

\* C8: when the forwarded request fails, the client gets 502 after exactly one
\* upstream attempt, and no response capture runs
C8_UpstreamFailureIs502 ==
    (pc = "done" /\ sent # <<>> /\ resp = NoResponse) =>
        (client.code = 502 /\ Len(sent) = 1 /\ ~respSaved)

\* C8 witness: the handler has answered a failed forward
C8_Witness == pc = "done" /\ sent # <<>> /\ resp = NoResponse /\ client.code = 502

\* C9 (as stated): the identifier holds none of / \ : * ? " < > | = &
C9_NoHostileCharacter ==
    pc = "named" =>
        \A i \in DOMAIN named.id :
            named.id[i] \notin {"/", "\\", ":", "*", "?", "\"", "<", ">", "|", "=", "&"}

\* C9 (amended): the identifier CreateFilePath builds holds none of
\* / \ : * ? " < > | (it keeps = and &); the output of the legacy sanitizeString
\* holds none of / \ : * ? " < > | = &
C9_SanitizedIdentifier ==
    pc = "named" =>
        /\ variant = "hvac" =>
              \A i \in DOMAIN named.id :
                  named.id[i] \notin {"/", "\\", ":", "*", "?", "\"", "<", ">", "|"}
        /\ variant = "legacy" =>
              \A i \in DOMAIN named.tag :
                  named.tag[i] \notin {"/", "\\", ":", "*", "?", "\"", "<", ">", "|",
                                       "=", "&"}

\* C9 witness: a target with '*' and '=' was named: '*' is gone, '=' is kept
C9_Witness ==
    /\ pc = "named" /\ variant = "hvac"
    /\ Contains(TargetOf(req), "*") /\ Contains(TargetOf(req), "=")
    /\ Contains(named.id, "=") /\ Contains(named.id, "_")

\* C10: the artifact's path is a direct child of the storage directory, with a
\* last segment that is a non-empty name other than "." and ".."
C10_PathIsDirectChild == pc = "named" => IsDirectChild(named.path)

\* C11: for a fixed extension, no two distinct (method, target, direction)
\* tuples get the same identifier
C11_IdentifierUniquePerTuple ==
    pc = "named" =>
        \A r2 \in PathRequests : \A isRequest2 \in BOOLEAN :
            Tuple(r2, isRequest2) # Tuple(req, named.isRequest) =>
                named.id # (IF variant = "hvac"
                            THEN FileName(r2, IF isRequest2 THEN <<>> ELSE ResponseSuffix,
                                          IF named.xml THEN XmlExt ELSE <<>>)
                            ELSE LegacyFileName(r2, IF isRequest2 THEN <<>>
                                                    ELSE ResponseSuffix, named.xml))

\* C12: for a target without "." and ".." segments and an identifier of at most
\* 255 characters, the identifier is METHOD, "-", the target without its
\* leading "/" and with each of / \ : * ? " < > | replaced by one "_", then
\* "-" and the suffix when there is one, then the extension
C12_IdentifierFormula ==
    (/\ pc = "named"
     /\ \A i \in DOMAIN SplitSlash(TargetOf(req)) :
            SplitSlash(TargetOf(req))[i] \notin {<<".">>, <<".", ".">>}
     /\ Len(named.id) <= 255) =>
        LET t == TrimPrefix(TargetOf(req), <<"/">>)
        IN named.id =
             req.Method \o <<"-">>
             \o [i \in 1..Len(t) |->
                    IF t[i] \in {"/", "\\", ":", "*", "?", "\"", "<", ">", "|"}
                    THEN "_" ELSE t[i]]
             \o (IF named.isRequest THEN <<>> ELSE <<"-">> \o ResponseSuffix)
             \o (IF named.xml THEN XmlExt ELSE <<>>)

\* C13: the identifier has at most 255 characters, however long the target is
C13_IdentifierAtMost255 == pc = "named" => Len(named.id) <= 255

\* C14: the exposition is nine blocks, in the order outdoorAirTemp, fanSpeed,
\* stage, filter, temperature, relativeHumidity, heatSetPoint, coolingSetPoint,
\* localtime; each block is a HELP line, a TYPE line and a value line that carry
\* the block's name with the same casing
C14_NineBlocksOneName ==
    LET names == <<"outdoorAirTemp", "fanSpeed", "stage", "filter", "temperature",
                   "relativeHumidity", "heatSetPoint", "coolingSetPoint", "localtime">>
    IN lastExpo # <<>> =>
        /\ Len(lastExpo) = 27
        /\ \A b \in 1..9 :
              /\ lastExpo[3 * b - 2].l = "# HELP" /\ lastExpo[3 * b - 2].name = names[b]
              /\ lastExpo[3 * b - 1].l = "# TYPE" /\ lastExpo[3 * b - 1].name = names[b]
              /\ lastExpo[3 * b].l = "" /\ lastExpo[3 * b].name = names[b]

\* C15: the value line of the stage block prints the operating-state token as
\* it is when the token is not a number, and the parsed integer when it is
C15_StageRendersToken ==
    [][(pc = "capreq" /\ lastExpo' # lastExpo) =>
          LET opstat == Unmarshal(DecodeForm(req.body)).status.OPSTAT
          IN lastExpo'[9].val = IF Atoi(opstat).ok THEN ValD(Atoi(opstat).val)
                                ELSE ValS(opstat)]_vars

\* C16: after the capture of a status document whose localTime does not parse,
\* the exposition is the one of that document with the value line localtime 0:
\* no timestamp of an earlier document is in it
C16_UnparsedTimeIsZero ==
    [][(/\ pc = "capreq"
        /\ HasSuffix(req.Path, StatusSuffix)
        /\ HasStatusPrefix(DecodeForm(req.body))
        /\ Unmarshal(DecodeForm(req.body)).ok
        /\ Len(Unmarshal(DecodeForm(req.body)).status.Zones) > 0
        /\ LocalTimeDigits(Unmarshal(DecodeForm(req.body)).status.LocalTime) = <<"0">>) =>
          LET s == Unmarshal(DecodeForm(req.body)).status IN
          /\ (variant = "hvac" /\ lastExpo' # lastExpo) =>
                /\ lastExpo'[27] = ValueLine("localtime", ValS(<<"0">>))
                /\ lastExpo' = ToPrometheus(s, FALSE)
          /\ variant = "legacy" =>
                /\ metricsHandler(metrics')[27] = ValueLine("localtime", ValS(<<"0">>))
                /\ metricsHandler(metrics') = metricsHandler(updateMetrics(ZeroMetrics, s))
       ]_vars

\* C17: the capture of a status document without zones ends in an error, not in
\* a panic, stores no exposition and leaves the snapshot as it was in every
\* field: no earlier or default zone value stands beside the new document's
\* other fields
C17_NoZonesKeepsSnapshot ==
    [][(/\ pc = "capreq"
        /\ HasSuffix(req.Path, StatusSuffix)
        /\ HasStatusPrefix(DecodeForm(req.body))
        /\ Unmarshal(DecodeForm(req.body)).ok
        /\ Len(Unmarshal(DecodeForm(req.body)).status.Zones) = 0) =>
          /\ pc' # "panicked"
          /\ Snapshot' = Snapshot
          /\ lastExpo' = lastExpo
          /\ metrics' = metrics]_vars

\* C18: with redaction on, the stored copy of a response that holds update
\* blocks inside an outer element has no update element left, and still begins
\* with the outer element's opening tag and ends with its closing tag
C18_RedactionKeepsOuterElement ==
    [][(/\ pc = "capresp"
        /\ blockUpdates
        /\ DecodesAll(respBody)
        /\ \E i \in 2..Len(respBody) : IsStart(respBody[i]) /\ respBody[i].n = "update"
        /\ lastCap' # lastCap) =>
          LET stored == lastCap'[Tuple(req, FALSE)] IN
          /\ \A i \in DOMAIN stored : ~(stored[i].k \in {"open", "close"}
                                        /\ stored[i].n = "update")
          /\ stored # <<>>
          /\ stored[1] = respBody[1]
          /\ stored[Len(stored)] = respBody[Len(respBody)]]_vars

\* C19: PrettifyXML(b) is b itself, or the complete indented re-serialisation
\* of a b that decodes without error: every item of b in order, none missing,
\* and every start tag after the first on a new line at its nesting depth
C19_PrettifyAllOrNothing ==
    pc = "pretty" =>
        \/ respBody = req.body
        \/ /\ DecodesAll(req.body)
           /\ SelectSeq(respBody, LAMBDA t : t.k # "nl")
                = SelectSeq(req.body, LAMBDA t : t.k # "nl")
           /\ Len(respBody) > Len(req.body)
           /\ \A i \in 2..Len(respBody) :
                 (IsStart(respBody[i]) /\ \E j \in 1..(i - 1) : IsStart(respBody[j])) =>
                     respBody[i - 1] =
                         Nl(Cardinality({j \in 1..(i - 1) : IsStart(respBody[j])})
                            - Cardinality({j \in 1..(i - 1) : IsEnd(respBody[j])}))

\* C19 witness: a nested document was re-serialised with an indented line
C19_Witness ==
    /\ pc = "pretty" /\ respBody # req.body
    /\ \E i \in DOMAIN respBody : respBody[i] = Nl(1)

\* C20: PrettifyXML(PrettifyXML(b)) = PrettifyXML(b) for every b that is
\* well-formed markup
C20_PrettifyIdempotent ==
    [][(pc = "pretty" /\ DecodesAll(req.body)
        /\ TrimBlankLeft(req.body) # <<>> /\ StartsWithAngle(Head(TrimBlankLeft(req.body))))
         => respBody' = respBody]_vars

\* C21: the copy a metricsHandler call renders is taken while it holds the mutex
\* and no updateMetrics call is between its first and its last assignment, and
\* the exposition it writes is the one of that copy: no rendered value comes
\* from an update still in progress
C21_HandlerRendersOneState ==
    [][/\ (rd.pc = "locked" /\ rd'.pc = "copied") =>
            (mu = "handler" /\ pc \in {"idle", "lock"} /\ rd'.m = metrics)
       /\ client' # client => client'.body = metricsHandler(rd.m)]_vars

\* C21 witness: the handler took its copy of updated metrics while an update
\* was waiting for the mutex
C21_Witness == rd.pc = "copied" /\ pc = "lock" /\ rd.m # ZeroMetrics

\* C22: whatever HandleMetrics answers while SaveBody calls run is the 500
\* error or the complete exposition text of one extracted document, never an
\* empty, truncated or mixed content
C22_MetricsReplyIsWholeExposition ==
    client # NoReply =>
        \/ client = ErrorReply(500)
        \/ /\ client.code = 200
           /\ client.body \in {ToPrometheus(Unmarshal(d).status, FALSE) : d \in {DocA, DocB}}

\* C23: once every overlapping capture has completed, each artifact holds
\* exactly the content one of the captures wrote, never a mixture
C23_LastWriterWins ==
    (Len(wr) = MaxRequests /\ \A i \in 1..Len(wr) : wr[i].todo = <<>>) =>
        \A p \in DOMAIN files \ {MetricsPath} :
            files[p] \in {SavedContent(d, FALSE) : d \in {DocA, DocB, DocUpdates}}

\* C24: the publish is fire-and-forget: the capture that starts a PublishMQTT
\* goroutine returns in that same step and the handler goes on to forward the
\* request, and the return of a publish, whatever its outcome, changes neither
\* the files nor the handler's position nor anything sent to the upstream or
\* the client
C24_PublishIsFireAndForget ==
    [][/\ publishing' > publishing => pc' = "forward"
       /\ publishing' < publishing =>
            (/\ files' = files /\ Snapshot' = Snapshot /\ dirExists' = dirExists
             /\ pc' = pc /\ client' = client /\ sent' = sent /\ resp' = resp
             /\ respBody' = respBody)]_vars

\* C25: a status request whose body starts with the status root tag and
\* fails to parse, or whose snapshot could not be written, still leaves its
\* raw request artifact in storage (storage without I/O errors on the artifact)
C25_FailedExtractionStillCaptures ==
    [][(/\ pc = "capreq" /\ pc' = "forward"
        /\ HasSuffix(req.Path, StatusSuffix)
        /\ HasStatusPrefix(DecodeForm(req.body))
        /\ \/ ~Unmarshal(DecodeForm(req.body)).ok
           \/ /\ variant = "hvac"
              /\ Snapshot' # <<ToPrometheus(Unmarshal(DecodeForm(req.body)).status, FALSE)>>)
       => \E p \in DOMAIN files' \cap DOMAIN owner' :
            /\ owner'[p] = Tuple(req, TRUE)
            /\ files'[p] = IF variant = "hvac" THEN SavedContent(req.body, blockUpdates)
                           ELSE LegacySavedContent(req.body)]_vars

\* C26: a non-empty capture that finds the storage directory missing creates
\* it and writes the artifact into it (storage without I/O errors)
C26_CaptureCreatesStorageDir ==
    [][\A isRequest \in BOOLEAN :
         (/\ pc = (IF isRequest THEN "capreq" ELSE "capresp")
          /\ pc' = (IF isRequest THEN "forward" ELSE "reply")
          /\ ~dirExists
          /\ (IF isRequest THEN req.body ELSE respBody') # <<>>)
         => /\ dirExists'
            /\ \E p \in DOMAIN files' \cap DOMAIN owner' :
                 Dir(p) = DataDir /\ owner'[p] = Tuple(req, isRequest)]_vars

\* C27: the stages of one request run in sequence: the upstream request is
\* sent only after the request capture, the client is written to only after
\* the response capture (or with the 502 of a failed upstream request, or the
\* 404 of the favicon), and when the upstream request fails the artifact of a
\* non-empty request is in storage (storage without I/O errors)
C27_StagesInSequence ==
    [][/\ (sent' # sent /\ sent' # <<>>) => pc = "forward"
       /\ (client' # client /\ client' # NoReply) =>
            \/ pc = "idle" /\ req'.Path = FaviconTarget
            \/ pc = "forward" /\ client' = ErrorReply(502)
            \/ pc = "reply" /\ respSaved
       /\ (pc = "forward" /\ pc' = "done" /\ req.body # <<>>) =>
            \E p \in DOMAIN files \cap DOMAIN owner : owner[p] = Tuple(req, TRUE)]_vars

\* C28: the artifact a capture writes has a name ending in ".xml" exactly when
\* IsXML holds of the URL-decoded body as it was received, before redaction
\* and before prettifying
C28_ExtensionFromDecodedBody ==
    [][\A isRequest \in BOOLEAN :
         (/\ pc = (IF isRequest THEN "capreq" ELSE "capresp")
          /\ pc' = (IF isRequest THEN "forward" ELSE "reply"))
         => \A p \in DOMAIN files' \cap DOMAIN owner' :
              (/\ owner'[p] = Tuple(req, isRequest)
               /\ \/ p \notin DOMAIN files \/ files[p] # files'[p]
                  \/ owner[p] # owner'[p])
              => (HasSuffix(p, XmlExt)
                  <=> IsXML(DecodeForm(IF isRequest THEN req.body ELSE resp.body)))]_vars

\* C29: the extractor rejects a buffer exactly when it is not a recognized
\* document: a status request whose decoded body starts with '<status', or
\* with an XML declaration followed by '<status', is parsed (when it parses,
\* the publish of the parsed document is started), and any other body leaves
\* the snapshot alone and starts no publish
C29_RejectsExactlyUnrecognized ==
    [][(pc = "capreq" /\ pc' # "capreq" /\ HasSuffix(req.Path, StatusSuffix)) =>
         IF isHVACXML(DecodeForm(req.body))
         THEN Unmarshal(DecodeForm(req.body)).ok => publishing' = publishing + 1
         ELSE Snapshot' = Snapshot /\ publishing' = publishing]_vars

\* C30: IsXML is true exactly when the decoder, reading from the start, yields
\* a closing tag before an error or the end of the input: the first closing
\* tag of the buffer closes the element opened last before it.  It is false
\* for the empty input, for a truncated fragment and for mismatched tags, and
\* true when the first balanced element is followed by garbage.
C30_IsXMLFirstClosingTag ==
    [][pc' # pc =>
        /\ named'.xml <=>
              \E i \in 1..Len(respBody) :
                 /\ IsEnd(respBody[i])
                 /\ \A j \in 1..(i - 1) : ~IsEnd(respBody[j])
                 /\ \E j \in 1..(i - 1) :
                      /\ IsStart(respBody[j]) /\ respBody[j].n = respBody[i].n
                      /\ \A k \in (j + 1)..(i - 1) : ~IsStart(respBody[k])
        /\ respBody \in {<<>>, <<Open("a"), Open("b"), Text(<<"x">>)>>,
                          <<Open("a"), Open("b"), Text(<<"x">>), Close("a")>>}
             => ~named'.xml
        /\ respBody = <<Open("a"), Close("a"), Close("b")>> => named'.xml]_vars

\* C30 witness: IsXML was true of an input that does not decode to its end
C30_Witness == pc = "pretty" /\ named.xml /\ ~DecodesAll(req.body)

====
